---- MODULE Spec2Model ----
(***************************************************************************)
(* UploaderManager of aragorn-app-main (src/uploaderManager.ts): the       *)
(* upload orchestration of one or several batches against the pluggable    *)
(* uploaders of aragorn-core.                                              *)
(*                                                                         *)
(* JavaScript runs one task at a time: the synchronous part of a handler   *)
(* and the promise continuations (microtasks) it releases run without      *)
(* interleaving, in the order in which they were queued. Each action below *)
(* is one such run: the call of upload(), the settling of the adapter      *)
(* transfers that settle within one macrotask, a timer.                    *)
(***************************************************************************)
EXTENDS Integers, Sequences, FiniteSets, TLC

\* ------------------------------------------------------------------ bounds
MaxFiles == 2
MaxChain == 4
MaxBatches == 2
MaxFileOps == 1
MaxBytes == 4
MaxItems == 3
MaxTogether == 2

\* ------------------------------------------------------------ environment
Undefined == "undefined"

\* ids of the profiles the UploaderProfileManager may hold
ProfileIds == {"p1", "p2"}
\* id of the profile handed to handleUploadTest
TestProfileId == "pt"

\* uploaders registered in aragorn-core, each one instance
AdapterNames == {"par", "seq"}
\* uploaderName values a profile may carry ("ghost" is registered nowhere)
UploaderNames == AdapterNames \cup {"ghost"}

NoProfile == [id |-> Undefined, uploaderName |-> Undefined, uploaderOptions |-> Undefined]

\* uploader.batchUploadMode of the registered uploaders
batchUploadMode(uploader) == IF uploader = "seq" THEN "Sequence" ELSE "Parallel"

\* this.core.getUploaderByName
getUploaderByName(name) == IF name \in AdapterNames THEN name ELSE Undefined

\* JavaScript truthiness of an optional string
Truthy(s) == s /= Undefined /\ s /= ""

\* a || b on optional strings
OrElse(a, b) == IF Truthy(a) THEN a ELSE b

Batches == 1..MaxBatches

Ev(t, i) == [ev |-> t, i |-> i]

VARIABLES
  batch,           \* batch[b]: the activation record of the b-th call of upload()
  adapterOptions,  \* adapterOptions[u]: the options uploader u was last given by changeOptions
  ops,             \* the calls of getFileList, deleteFile and createDirectory so far
  dl,              \* the activation record of a call of download()
  grouping         \* the call of uploadByDifferentUploaderProfileIds: its data, the batches it started

vars == <<batch, adapterOptions, ops, dl, grouping>>

\* the record of a call of download() that has not been made yet
NoDownload ==
  [ pc |-> "idle", known |-> FALSE, totalLength |-> 0, writer |-> "none",
    source |-> "none", error |-> FALSE, curLength |-> 0, chunks |-> 0,
    failure |-> "none", promise |-> "pending", ipc |-> <<>>, signals |-> <<>> ]

\* what a transfer may throw or reject with: an Error with a message, a value
\* without a message property (a string), or null / undefined
NothingThrown == [kind |-> "none", message |-> Undefined]
ErrorOf(message) == [kind |-> "Error", message |-> message]
Thrown ==
  {ErrorOf("adapter error"), [kind |-> "value", message |-> Undefined],
   [kind |-> "nullish", message |-> Undefined]}

\* what uploader.upload hands to toUpload: {success: true}, {success: false,
\* desc} where desc may be empty or missing, or something thrown
NoResult == [r |-> "none", err |-> NothingThrown, desc |-> Undefined]
Success == [r |-> "success", err |-> NothingThrown, desc |-> Undefined]
Failure(desc) == [r |-> "failure", err |-> NothingThrown, desc |-> desc]
Fault(err) == [r |-> "fault", err |-> err, desc |-> Undefined]
Descs == {"desc", "", Undefined}
Results == {Success} \cup {Failure(desc) : desc \in Descs} \cup {Fault(err) : err \in Thrown}

\* how a call of uploader.upload ends: it returns a promise that settles in a
\* later macrotask, it throws before it returns, or it returns a value or a
\* promise that is settled already
Later == [when |-> "later", res |-> NoResult]
Throws(err) == [when |-> "throws", res |-> Fault(err)]
Settled(res) == [when |-> "settled", res |-> res]
Behaviours ==
  {Later} \cup {Throws(err) : err \in Thrown} \cup {Settled(res) : res \in Results}

\* a microtask: toUpload of position k of batch b resumes after its
\* await uploader.upload ("resume", with the result) or after its
\* await uploadQuence[index - 1] ("await"), Promise.all reacts to the promise
\* of position k ("element"), upload() resumes after await Promise.all ("join")
Job(t, b, k, res) == [t |-> t, b |-> b, k |-> k, res |-> res]

\* the record of a call of upload() that has not been made yet
Idle ==
  [ pc |-> "idle", ret |-> "none",
    opts |-> [files |-> <<>>, customUploaderProfileId |-> Undefined,
              isFromFileManage |-> FALSE, testProfile |-> NoProfile, isTest |-> FALSE],
    env |-> [defaultUploaderProfileId |-> Undefined, uploaderProfiles |-> {}],
    uploaderProfile |-> NoProfile, uploader |-> Undefined,
    task |-> <<>>, invokedWith |-> <<>>, plan |-> <<>>,
    all |-> "none", remaining |-> 0,
    successRes |-> <<>>, failRes |-> <<>>,
    thrown |-> NothingThrown,
    log |-> <<>>, history |-> <<>>, notifications |-> <<>>, ipc |-> <<>>,
    clipboard |-> <<>>, timer |-> FALSE ]

Init ==
  /\ batch = [b \in Batches |-> Idle]
  /\ adapterOptions = [u \in AdapterNames |-> Undefined]
  /\ ops = <<>>
  /\ dl = NoDownload
  /\ grouping = [pc |-> "idle", data |-> <<>>, started |-> 0]

\* ------------------------------------------------------ profile resolution
\* SelectProfile with a fallback to the default id when the explicit id is unknown
SelectProfileFallsBack(o, e) ==
  IF o.isTest
    THEN o.testProfile
    ELSE LET byExplicit == {p \in e.uploaderProfiles : p.id = o.customUploaderProfileId}
             byDefault == {p \in e.uploaderProfiles : p.id = e.defaultUploaderProfileId}
             found == IF byExplicit /= {} THEN byExplicit ELSE byDefault
         IN IF found = {} THEN NoProfile ELSE CHOOSE p \in found : TRUE

\* SelectProfile with the explicit id taking precedence over the test profile
SelectProfileExplicitFirst(o, e) ==
  IF o.isTest /\ ~Truthy(o.customUploaderProfileId)
    THEN o.testProfile
    ELSE LET wanted == OrElse(o.customUploaderProfileId, e.defaultUploaderProfileId)
             found == {p \in e.uploaderProfiles : p.id = wanted}
         IN IF found = {} THEN NoProfile ELSE CHOOSE p \in found : TRUE

\* upload(): the profile of the batch
SelectProfile(o, e) ==
  IF o.isTest
    THEN o.testProfile
    ELSE LET wanted == OrElse(o.customUploaderProfileId, e.defaultUploaderProfileId)
             found == {p \in e.uploaderProfiles : p.id = wanted}
         IN IF found = {} THEN NoProfile ELSE CHOOSE p \in found : TRUE

\* upload(): the body of the notification shown when no profile is selected
NoProfileMessage(o, e) ==
  IF Truthy(o.customUploaderProfileId)
    THEN "uploader profile does not exist"
    ELSE IF Cardinality(e.uploaderProfiles) > 0
           THEN "please configure the default uploader"
           ELSE "please add an uploader profile"

\* ------------------------------------------------------------- side effects
\* new Notification({title, body}).show()
Notify(rec, title, body, counts) ==
  [rec EXCEPT !.notifications = Append(@, [title |-> title, body |-> body, counts |-> counts]),
              !.log = Append(@, Ev("notify", Len(rec.notifications)))]

\* Ipc.sendMessage(channel, payload)
SendMessage(rec, channel, payload) ==
  [rec EXCEPT !.ipc = Append(@, [channel |-> channel, payload |-> payload]),
              !.log = Append(@, Ev("ipc", Len(rec.ipc)))]

BoolStr(x) == IF x THEN "true" ELSE "false"

\* handleAddHistory: this.history.add, then the reply unless the window is gone
handleAddHistory(rec, uploadedData, winDestroyed) ==
  LET added == [rec EXCEPT !.history = Append(@, uploadedData),
                           !.log = Append(@, Ev("history", Len(rec.history)))]
  IN IF ~winDestroyed
       THEN SendMessage(added, "uploaded-files-get-reply", "uploadedFiles")
       ELSE added

\* handleBatchUploaded
handleBatchUploadedLoneSuccess(rec, successFilesCount, failFilesCount) ==
  IF failFilesCount = 0
    THEN Notify(rec, "batch upload succeeded", "total", <<successFilesCount>>)
    ELSE IF successFilesCount <= 1
      THEN Notify(rec, "batch upload failed", "total", <<failFilesCount>>)
      ELSE Notify(rec, "batch upload finished", "succeeded-failed",
                  <<successFilesCount, failFilesCount>>)

\* handleBatchUploaded(successRes.length, failRes.length)
handleBatchUploaded(rec, successFilesCount, failFilesCount) ==
  IF failFilesCount = 0
    THEN Notify(rec, "batch upload succeeded", "total", <<successFilesCount>>)
    ELSE IF successFilesCount = 0
      THEN Notify(rec, "batch upload failed", "total", <<failFilesCount>>)
      ELSE Notify(rec, "batch upload finished", "succeeded-failed",
                  <<successFilesCount, failFilesCount>>)

\* handleSingleUploaded reads failFile.errorMessage of an undefined failFile
SingleThrows(rec) == Len(rec.successRes) = 0 /\ Len(rec.failRes) = 0

\* handleSingleUploaded(successRes[0], failRes[0]) where it does not throw
handleSingleUploaded(rec, st) ==
  IF Len(rec.successRes) > 0
    THEN IF st.urlType \notin {"URL", "HTML", "Markdown"}
      THEN rec
      ELSE IF st.autoCopy
        THEN LET copied == [rec EXCEPT !.clipboard =
                              Append(@, [fmt |-> st.urlType, file |-> rec.successRes[1].file])]
                 shown == IF st.showNotifaction
                            THEN Notify(copied, "upload succeeded", "link copied", <<>>)
                            ELSE copied
             IN IF st.autoRecover THEN [shown EXCEPT !.timer = TRUE] ELSE shown
        ELSE IF st.showNotifaction
               THEN Notify(rec, "upload succeeded", st.urlType, <<>>)
               ELSE rec
    ELSE Notify(rec, "upload failed",
                OrElse(rec.failRes[1].errorMessage, "error not caught"), <<>>)

\* ------------------------------------------------------------- upload()
\* upload(): the catch block
Catch(rec, err) ==
  IF err.kind = "nullish"
    THEN [rec EXCEPT !.pc = "rejected", !.ret = "rejection"]
    ELSE LET replied == IF rec.opts.isTest
                          THEN SendMessage(rec, "uploader-profile-test-reply", "false")
                          ELSE rec
         IN [Notify(replied, "upload exception", err.message, <<>>)
               EXCEPT !.pc = "caught", !.ret = Undefined]

\* upload(): the history write and the replies, after Promise.all resolved
Record(rec, winDestroyed) ==
  LET recorded == handleAddHistory(rec, rec.failRes \o rec.successRes, winDestroyed)
      fromFM == IF rec.opts.isFromFileManage
                  THEN SendMessage(recorded, "file-upload-reply", "none")
                  ELSE recorded
  IN IF rec.opts.isTest
       THEN SendMessage(fromFM, "uploader-profile-test-reply",
                        BoolStr(Len(rec.successRes) > 0))
       ELSE fromFM

\* upload(): the presentation of the outcome and the return; st is read by
\* handleSingleUploaded alone, and only of a success
Present(rec, st) ==
  IF Len(rec.opts.files) > 1
    THEN [handleBatchUploaded(rec, Len(rec.successRes), Len(rec.failRes))
            EXCEPT !.pc = "returned", !.ret = "successRes"]
    ELSE IF SingleThrows(rec)
      THEN Catch(rec, ErrorOf("TypeError"))
      ELSE [handleSingleUploaded(rec, st) EXCEPT !.pc = "returned", !.ret = "successRes"]

ReadsSettings(rec) == Len(rec.opts.files) <= 1 /\ Len(rec.successRes) > 0

\* Gate that is off by one: the second task does not wait
GateFromThird(mode, index) == mode = "Sequence" /\ index > 1

\* toUpload: whether the task waits for uploadQuence[index - 1] before its transfer
Gate(mode, index) == mode = "Sequence" /\ index > 0

\* toUpload: baseInfo of the task at position k
BaseInfo(rec, k) ==
  [file |-> rec.opts.files[k], index |-> k - 1,
   uploaderProfileId |-> OrElse(rec.uploaderProfile.id, "")]

\* toUpload: the continuation once uploader.upload of position k has handed
\* over res; the promise of the task resolves, or rejects with what was thrown
Complete(rec, k, res) ==
  LET settled == [rec EXCEPT !.log = Append(@, Ev("settle", k - 1))]
  IN CASE res.r = "success" ->
            [settled EXCEPT !.task[k] = "success",
               !.successRes = Append(@, [info |-> BaseInfo(rec, k), errorMessage |-> Undefined,
                                         file |-> rec.opts.files[k]])]
       [] res.r = "failure" ->
            [settled EXCEPT !.task[k] = "failure",
               !.failRes = Append(@, [info |-> BaseInfo(rec, k), errorMessage |-> res.desc,
                                      file |-> rec.opts.files[k]])]
       [] OTHER -> [settled EXCEPT !.task[k] = "fault",
                                   !.thrown = IF @ = NothingThrown THEN res.err ELSE @]

\* toUpload: uploader.upload(...) is called for the task at position k, while
\* the uploader holds the options `held`; a call that throws rejects the
\* promise of the task on the spot
Invoke(rec, k, held) ==
  LET invoked == [rec EXCEPT !.task[k] = "inflight", !.invokedWith[k] = held,
                             !.log = Append(@, Ev("invoke", k - 1))]
  IN IF rec.plan[k].when = "throws" THEN Complete(invoked, k, rec.plan[k].res) ELSE invoked

PromiseSettled(rec, k) == rec.task[k] \in {"success", "failure", "fault", "aborted"}
PromiseRejected(rec, k) == rec.task[k] \in {"fault", "aborted"}
Rejected(rec) == \E k \in 1..Len(rec.task) : PromiseRejected(rec, k)

\* the reactions queued when the promise of position k settles: the task that
\* awaits it, then Promise.all if it has been called
Reactions(rec, b, k) ==
  (IF k < Len(rec.task) /\ rec.task[k + 1] = "waiting"
     THEN <<Job("await", b, k + 1, NoResult)>> ELSE <<>>)
  \o (IF rec.all /= "none" THEN <<Job("element", b, k, NoResult)>> ELSE <<>>)

\* the microtasks queued by the step that left position k as it is in rec:
\* the reactions to its promise if that settled, the resumption of toUpload if
\* uploader.upload returned something settled
Queued(rec, b, k) ==
  IF PromiseSettled(rec, k)
    THEN Reactions(rec, b, k)
    ELSE IF rec.task[k] = "inflight" /\ rec.plan[k].when = "settled"
      THEN <<Job("resume", b, k, rec.plan[k].res)>>
      ELSE <<>>

\* await Promise.all(promises): the call of Promise.all and the await; a
\* promise that is settled by now has its reaction queued at once
PromiseAll(rec, b) ==
  LET settled == SelectSeq([k \in 1..Len(rec.task) |-> k], LAMBDA k : PromiseSettled(rec, k))
      elements == [j \in 1..Len(settled) |-> Job("element", b, settled[j], NoResult)]
  IN IF Len(rec.task) = 0
       THEN [rec |-> [rec EXCEPT !.all = "resolved"], jobs |-> <<Job("join", b, 0, NoResult)>>]
       ELSE [rec |-> [rec EXCEPT !.all = "pending", !.remaining = Len(rec.task)],
             jobs |-> elements]

\* Dispatch that does not prepare a task while it waits
RECURSIVE DispatchGatedPreparation(_, _, _, _, _)
DispatchGatedPreparation(rec, b, k, held, jobs) ==
  IF k > Len(rec.opts.files)
    THEN LET joined == PromiseAll(rec, b)
         IN [rec |-> joined.rec, jobs |-> jobs \o joined.jobs]
    ELSE LET prepared == [rec EXCEPT !.log = Append(@, Ev("prepare", k - 1))]
         IN IF Gate(batchUploadMode(rec.uploader), k - 1)
              THEN DispatchGatedPreparation(
                     [rec EXCEPT !.task[k] = "waiting"], b, k + 1, held,
                     IF PromiseSettled(rec, k - 1)
                       THEN Append(jobs, Job("await", b, k, NoResult)) ELSE jobs)
              ELSE LET started == Invoke(prepared, k, held)
                   IN DispatchGatedPreparation(started, b, k + 1, held,
                                               jobs \o Queued(started, b, k))

\* files.map: toUpload(file, index) for the positions k.., each up to its
\* first await, then await Promise.all; jobs are the microtasks queued so far
RECURSIVE Dispatch(_, _, _, _, _)
Dispatch(rec, b, k, held, jobs) ==
  IF k > Len(rec.opts.files)
    THEN LET joined == PromiseAll(rec, b)
         IN [rec |-> joined.rec, jobs |-> jobs \o joined.jobs]
    ELSE LET prepared == [rec EXCEPT !.log = Append(@, Ev("prepare", k - 1))]
         IN IF Gate(batchUploadMode(rec.uploader), k - 1)
              THEN Dispatch([prepared EXCEPT !.task[k] = "waiting"], b, k + 1, held,
                            IF PromiseSettled(rec, k - 1)
                              THEN Append(jobs, Job("await", b, k, NoResult)) ELSE jobs)
              ELSE LET started == Invoke(prepared, k, held)
                   IN Dispatch(started, b, k + 1, held, jobs \o Queued(started, b, k))

\* Propagate that takes a structured failure for a rejection
PropagateFailureRejects(rec, k, held) ==
  IF rec.task[k - 1] \in {"failure", "fault", "aborted"}
    THEN [rec EXCEPT !.task[k] = "aborted", !.log = Append(@, Ev("abort", k - 1))]
    ELSE Invoke(rec, k, held)

\* await uploadQuence[index - 1] is over for the task at position k: the task
\* calls the uploader, or its promise rejects with the rejection it awaited
Propagate(rec, k, held) ==
  IF PromiseRejected(rec, k - 1)
    THEN [rec EXCEPT !.task[k] = "aborted", !.log = Append(@, Ev("abort", k - 1))]
    ELSE Invoke(rec, k, held)

\* Resolves as soon as one promise resolved
ResolvesWithFirst(rec, k) == rec.all = "pending" /\ ~PromiseRejected(rec, k)

\* Promise.all resolves on the reaction to the promise of position k: it was
\* the last one outstanding
Resolves(rec, k) ==
  rec.all = "pending" /\ ~PromiseRejected(rec, k) /\ rec.remaining = 1

\* the reaction of Promise.all to the promise of position k; what it queues is
\* the resumption of upload()
Element(rec, k) ==
  IF PromiseRejected(rec, k)
    THEN IF rec.all = "pending" THEN [rec EXCEPT !.all = "rejected"] ELSE rec
    ELSE IF Resolves(rec, k)
      THEN [rec EXCEPT !.all = "resolved", !.remaining = 0]
      ELSE [rec EXCEPT !.remaining = IF @ > 0 THEN @ - 1 ELSE @]

\* the settings where handleSingleUploaded does not read them
SettingsNotRead ==
  [urlType |-> "URL", autoCopy |-> FALSE, autoRecover |-> FALSE, showNotifaction |-> FALSE]

\* what handleSingleUploaded reads of this.setting.configuration
PresentSettings ==
  [urlType : {"URL", "HTML", "Markdown", "other"}, autoCopy : BOOLEAN,
   autoRecover : BOOLEAN, showNotifaction : BOOLEAN]

\* NotFound that throws instead of returning false
NotFoundThrows(rec, message) == Catch(rec, ErrorOf(message))

\* upload(): notification.show(); return false
NotFound(rec, message) ==
  [Notify(rec, "upload exception", message, <<>>) EXCEPT !.pc = "returned", !.ret = "false"]

\* an array of n elements x
RECURSIVE Repeat(_, _)
Repeat(x, n) == IF n = 0 THEN <<>> ELSE Append(Repeat(x, n - 1), x)

\* upload(uploadOptions) of batch b up to await Promise.all, with the
\* microtasks it queues; e is what the call reads of the settings and of the
\* profile manager, plan how the calls of uploader.upload will end
UploadCall(rec, b, o, e, plan) ==
  LET called == [rec EXCEPT !.opts = o, !.env = e]
      uploaderProfile == SelectProfile(o, e)
      uploader == getUploaderByName(uploaderProfile.uploaderName)
  IN IF uploaderProfile = NoProfile
       THEN [rec |-> NotFound(called, NoProfileMessage(o, e)), jobs |-> <<>>]
       ELSE IF uploader = Undefined
         THEN [rec |-> NotFound([called EXCEPT !.uploaderProfile = uploaderProfile],
                                "uploader not found"),
               jobs |-> <<>>]
         ELSE LET configured ==
                    [called EXCEPT !.uploaderProfile = uploaderProfile,
                       !.uploader = uploader,
                       !.log = Append(@, Ev("changeOptions", 0)),
                       !.task = Repeat("new", Len(o.files)),
                       !.invokedWith = Repeat(Undefined, Len(o.files)),
                       !.plan = plan,
                       !.pc = "awaiting"]
              IN Dispatch(configured, b, 1, uploaderProfile.uploaderOptions, <<>>)

\* upload(): the code after await Promise.all, or the catch block
Join(rec, st, winDestroyed) ==
  IF rec.all = "resolved"
    THEN Present(Record(rec, winDestroyed), st)
    ELSE Catch(rec, rec.thrown)

\* one microtask of batch b; held are the options its uploader holds
Step(rec, job, held, st, winDestroyed) ==
  CASE job.t = "resume" ->
         LET done == Complete(rec, job.k, job.res)
         IN [rec |-> done, jobs |-> Reactions(done, job.b, job.k)]
    [] job.t = "await" ->
         LET done == Propagate(rec, job.k, held)
         IN [rec |-> done, jobs |-> Queued(done, job.b, job.k)]
    [] job.t = "element" ->
         LET done == Element(rec, job.k)
         IN [rec |-> done,
             jobs |-> IF done.all /= rec.all
                        THEN <<Job("join", job.b, 0, NoResult)>> ELSE <<>>]
    [] OTHER -> [rec |-> Join(rec, st, winDestroyed), jobs |-> <<>>]

\* the microtasks of queue and those they queue, in order, until none is left
RECURSIVE Run(_, _, _, _, _)
Run(batches, queue, options, st, winDestroyed) ==
  IF queue = <<>>
    THEN batches
    ELSE LET job == Head(queue)
             out == Step(batches[job.b], job, options[batches[job.b].uploader],
                         st, winDestroyed)
         IN Run([batches EXCEPT ![job.b] = out.rec], Tail(queue) \o out.jobs,
                options, st, winDestroyed)

\* ---------------------------------------------------------------- inputs
ExplicitIds == {Undefined, ""} \cup ProfileIds
DefaultIds == {""} \cup ProfileIds
\* the uploaderOptions of a profile are named after the profile
OptionsOf(id) == "options of " \o id
Profile(id, name) == [id |-> id, uploaderName |-> name, uploaderOptions |-> OptionsOf(id)]
\* a test profile of the Parallel uploader or of an uploader that is not registered
TestProfiles == {NoProfile, Profile(TestProfileId, "par"), Profile(TestProfileId, "ghost")}
\* the lists UploaderProfileManager.getAll() may return (ids are unique): p1 is
\* a profile of the Parallel uploader, p2 one of the Sequence uploader or of
\* an uploader that is not registered
ProfileLists ==
  { l1 \cup l2 : l1 \in {{}, {Profile("p1", "par")}},
                 l2 \in {{}, {Profile("p2", "seq")}, {Profile("p2", "ghost")}} }
FileLists == { [k \in 1..n |-> k] : n \in 0..MaxFiles }
UploadOptions ==
  [files : FileLists, customUploaderProfileId : ExplicitIds, isFromFileManage : BOOLEAN,
   testProfile : TestProfiles, isTest : BOOLEAN]
Settings == [defaultUploaderProfileId : DefaultIds, uploaderProfiles : ProfileLists]
\* the lists of at most n elements of S
RECURSIVE Lists(_, _)
Lists(S, n) ==
  IF n = 0 THEN {<<>>} ELSE LET shorter == Lists(S, n - 1)
                            IN shorter \cup {Append(l, x) : l \in shorter, x \in S}
\* the plans for a list of files: how each call of uploader.upload ends
Plans(files, B) == [1..Len(files) -> B]
\* the results of the transfers that settle within one macrotask, in the
\* order in which they settle
Settlements(K, R) ==
  {l \in Lists([k : K, res : R], MaxTogether) \ {<<>>} :
     \A i, j \in 1..Len(l) : i /= j => l[i].k /= l[j].k}

\* --------------------------------------------------------------- actions
\* the macrotask ends: the microtasks of queue run; the settings and the
\* window state are read from P and W, if they are read at all
Finish(before, queue, options, P, W) ==
  LET dry == Run(before, queue, options, SettingsNotRead, FALSE)
      recorded == {b \in Batches : Len(dry[b].history) > Len(before[b].history)}
      reads == {b \in recorded : ReadsSettings(dry[b])}
  IN \E winDestroyed \in IF recorded = {} THEN {FALSE} ELSE W :
       \E st \in IF reads = {} THEN {SettingsNotRead} ELSE P :
         batch' = Run(before, queue, options, st, winDestroyed)

\* upload() has not been called for batch b
Callable(b) == batch[b].pc = "idle"

\* the positions of batch b whose transfer is in flight
InFlight(b) == {k \in 1..Len(batch[b].task) : batch[b].task[k] = "inflight"}

\* a call of upload(uploadOptions)
Upload(b, o, e, plan, P, W) ==
  /\ Callable(b)
  /\ LET call == UploadCall(batch[b], b, o, e, plan)
         options == IF call.rec.uploader /= Undefined
                      THEN [adapterOptions EXCEPT
                              ![call.rec.uploader] = call.rec.uploaderProfile.uploaderOptions]
                      ELSE adapterOptions
     IN /\ Finish([batch EXCEPT ![b] = call.rec], call.jobs, options, P, W)
        /\ adapterOptions' = options
  /\ UNCHANGED <<ops, dl, grouping>>

\* handleUploadTest(testProfile): the icon of the application is uploaded
handleUploadTest(b, testProfile, e, plan, P, W) ==
  Upload(b, [files |-> <<1>>, customUploaderProfileId |-> Undefined,
             isFromFileManage |-> FALSE, testProfile |-> testProfile, isTest |-> TRUE],
         e, plan, P, W)

\* the promises uploader.upload returned for the positions of settled settle
\* within one macrotask, in that order, each with its result
Settle(b, settled, P, W) ==
  /\ settled /= <<>>
  /\ \A i \in 1..Len(settled) :
       /\ settled[i].k \in InFlight(b)
       /\ \A j \in 1..Len(settled) : i /= j => settled[i].k /= settled[j].k
  /\ Finish(batch, [i \in 1..Len(settled) |-> Job("resume", b, settled[i].k, settled[i].res)],
            adapterOptions, P, W)
  /\ UNCHANGED <<adapterOptions, ops, dl, grouping>>

\* the timer of handleSingleUploaded restores the clipboard
RecoverClipboard(b) ==
  /\ batch[b].timer
  /\ batch' = [batch EXCEPT ![b] =
        [Notify([batch[b] EXCEPT !.clipboard = Append(@, [fmt |-> "previous", file |-> 0])],
                "clipboard recovered", "previous clipboard content restored", <<>>)
           EXCEPT !.timer = FALSE]]
  /\ UNCHANGED <<adapterOptions, ops, dl, grouping>>

\* getUploader(id): the profile with that id, if its uploader is registered
ProfileOfUploader(id, e) ==
  LET found == {p \in e.uploaderProfiles : p.id = id}
  IN IF found = {}
       THEN NoProfile
       ELSE LET uploaderProfile == CHOOSE p \in found : TRUE
            IN IF getUploaderByName(uploaderProfile.uploaderName) = Undefined
                 THEN NoProfile
                 ELSE uploaderProfile

\* getFileList, deleteFile, createDirectory: getUploader(id) configures the
\* uploader; with the capability the call is made and awaited, without it the
\* reply is sent at once, with no payload
FileOp(op, channel, id, e, capable) ==
  /\ Len(ops) < MaxFileOps
  /\ LET uploaderProfile == ProfileOfUploader(id, e)
     IN /\ adapterOptions' =
             IF uploaderProfile /= NoProfile
               THEN [adapterOptions EXCEPT
                       ![uploaderProfile.uploaderName] = uploaderProfile.uploaderOptions]
               ELSE adapterOptions
        /\ ops' = Append(ops,
             [op |-> op, uploaderProfileId |-> id, channel |-> channel,
              state |-> IF uploaderProfile /= NoProfile /\ capable THEN "pending" ELSE "replied",
              payload |-> "none"])
  /\ UNCHANGED <<batch, dl, grouping>>

getFileList(id, e, capable) == FileOp("getFileList", "file-list-get-reply", id, e, capable)
deleteFile(id, e, capable) == FileOp("deleteFile", "file-delete-reply", id, e, capable)
createDirectory(id, e, capable) ==
  FileOp("createDirectory", "directory-create-reply", id, e, capable)

\* the awaited call of a file operation settles and its result is sent
FileOpReply(n) ==
  /\ n \in 1..Len(ops)
  /\ ops[n].state = "pending"
  /\ ops' = [ops EXCEPT ![n].state = "replied", ![n].payload = "res"]
  /\ UNCHANGED <<batch, adapterOptions, dl, grouping>>

\* one call of upload() with any options under any settings: a call of
\* uploader.upload returns a pending promise, throws an Error or returns a
\* failure without desc; a pending promise settles with any kind of result
SpecBehaviours == {Later, Throws(ErrorOf("adapter error")), Settled(Failure(Undefined))}
SpecResults ==
  {Success, Failure("desc"), Failure(""), Fault(ErrorOf("adapter error")),
   Fault([kind |-> "nullish", message |-> Undefined])}
Next ==
  \/ /\ Callable(1)
     /\ \E o \in UploadOptions, e \in Settings :
          \E plan \in Plans(o.files, SpecBehaviours) :
            Upload(1, o, e, plan, PresentSettings, BOOLEAN)
  \/ /\ Callable(1)
     /\ \E testProfile \in TestProfiles \ {NoProfile}, e \in Settings :
          \E plan \in Plans(<<1>>, SpecBehaviours) :
            handleUploadTest(1, testProfile, e, plan, PresentSettings, BOOLEAN)
  \/ \E settled \in Settlements(InFlight(1), SpecResults) :
       Settle(1, settled, PresentSettings, BOOLEAN)
  \/ RecoverClipboard(1)

Spec == Init /\ [][Next]_vars

\* ------------------------------------------------ one longer batch
\* a batch of up to MaxChain files for the Parallel profile p1 or the Sequence
\* profile p2, both known
ChainSettings ==
  [defaultUploaderProfileId : {""},
   uploaderProfiles : {{Profile("p1", "par"), Profile("p2", "seq")}}]
ChainOptions ==
  [files : { [k \in 1..n |-> k] : n \in 0..MaxChain }, customUploaderProfileId : ProfileIds,
   isFromFileManage : {FALSE}, testProfile : {NoProfile}, isTest : {FALSE}]

\* a call of uploader.upload returns a pending promise, throws an Error or
\* returns a success; a pending promise resolves with a success or a failure
\* without desc, or rejects with an Error or with a value that is no Error
ChainBehaviours == {Later, Throws(ErrorOf("adapter error")), Settled(Success)}
ChainResults ==
  {Success, Failure(Undefined), Fault(ErrorOf("adapter error")),
   Fault([kind |-> "value", message |-> Undefined])}
NextChain ==
  \/ /\ Callable(1)
     /\ \E o \in ChainOptions, e \in ChainSettings :
          \E plan \in Plans(o.files, ChainBehaviours) :
            Upload(1, o, e, plan, PresentSettings, BOOLEAN)
  \/ \E settled \in Settlements(InFlight(1), ChainResults) :
       Settle(1, settled, PresentSettings, BOOLEAN)
  \/ RecoverClipboard(1)

SpecChain == Init /\ [][NextChain]_vars

\* ------------------------------------------- several batches, one uploader
\* two profiles of the same uploader
SharedProfileLists ==
  { {Profile("p1", n), Profile("p2", n)} : n \in AdapterNames }
SharedSettings == [defaultUploaderProfileId : {""}, uploaderProfiles : SharedProfileLists]
SharedOptions ==
  [files : FileLists \ {<<>>}, customUploaderProfileId : ProfileIds,
   isFromFileManage : {FALSE}, testProfile : {NoProfile}, isTest : {FALSE}]
QuietSettings ==
  {[urlType |-> "URL", autoCopy |-> FALSE, autoRecover |-> FALSE, showNotifaction |-> TRUE]}

\* batches and file operations that overlap, on uploaders that succeed
NextShared ==
  \/ \E b \in Batches, o \in SharedOptions, e \in SharedSettings :
       Upload(b, o, e, [k \in 1..Len(o.files) |-> Later], QuietSettings, {FALSE})
  \/ \E b \in Batches :
       \E settled \in Settlements(InFlight(b), {Success}) :
         Settle(b, settled, QuietSettings, {FALSE})
  \/ \E id \in ProfileIds, e \in SharedSettings, capable \in BOOLEAN : getFileList(id, e, capable)
  \/ \E id \in ProfileIds, e \in SharedSettings, capable \in BOOLEAN : deleteFile(id, e, capable)
  \/ \E id \in ProfileIds, e \in SharedSettings, capable \in BOOLEAN :
       createDirectory(id, e, capable)
  \/ \E n \in 1..MaxFileOps : FileOpReply(n)

SpecShared == Init /\ [][NextShared]_vars

\* ------------------------------ uploadByDifferentUploaderProfileIds()
\* [...new Set(s)] of the first n elements of s: the distinct elements, in the
\* order of their first occurrence
RECURSIVE SetOf(_, _)
SetOf(s, n) ==
  IF n = 0
    THEN <<>>
    ELSE LET seen == SetOf(s, n - 1)
         IN IF \E j \in 1..Len(seen) : seen[j] = s[n] THEN seen ELSE Append(seen, s[n])

\* [...new Set(data.map(item => item.id))]
uploaderProfileIds(data) == SetOf([k \in 1..Len(data) |-> data[k].id], Len(data))

\* filesPath that keeps one copy of a path
filesPathDistinct(data, id) ==
  LET items == SelectSeq(data, LAMBDA item : item.id = id)
      paths == [k \in 1..Len(items) |-> items[k].path]
  IN SetOf(paths, Len(paths))

\* data.filter(item => item.id === id).map(item => item.path)
filesPath(data, id) ==
  LET items == SelectSeq(data, LAMBDA item : item.id = id)
  IN [k \in 1..Len(items) |-> items[k].path]

\* uploaderProfileIds.map(id => ({id, filesPath}))
newData(data) ==
  LET ids == uploaderProfileIds(data)
  IN [k \in 1..Len(ids) |-> [id |-> ids[k], filesPath |-> filesPath(data, ids[k])]]

\* the uploadOptions of this.upload({files: item.filesPath, customUploaderProfileId: item.id})
GroupOptions(item) ==
  [files |-> item.filesPath, customUploaderProfileId |-> item.id,
   isFromFileManage |-> FALSE, testProfile |-> NoProfile, isTest |-> FALSE]

\* newData.forEach: the calls of upload for the items k.. of nd, one after the
\* other, each up to its first await; the k-th call is batch k, and the
\* microtasks the calls queue run when forEach is over
RECURSIVE ForEachUpload(_, _, _, _, _)
ForEachUpload(state, nd, k, e, plans) ==
  IF k > Len(nd)
    THEN state
    ELSE LET call == UploadCall(state.batch[k], k, GroupOptions(nd[k]), e, plans[k])
             options == IF call.rec.uploader /= Undefined
                          THEN [state.adapterOptions EXCEPT
                                  ![call.rec.uploader] =
                                     call.rec.uploaderProfile.uploaderOptions]
                          ELSE state.adapterOptions
         IN ForEachUpload([batch |-> [state.batch EXCEPT ![k] = call.rec],
                           adapterOptions |-> options,
                           jobs |-> state.jobs \o call.jobs], nd, k + 1, e, plans)

\* a call of uploadByDifferentUploaderProfileIds(data); plans[k] is how the
\* transfers of the k-th batch will end
uploadByDifferentUploaderProfileIds(data, e, plans, P, W) ==
  /\ grouping.pc = "idle"
  /\ \A b \in Batches : batch[b].pc = "idle"
  /\ Len(newData(data)) <= MaxBatches
  /\ LET after == ForEachUpload([batch |-> batch, adapterOptions |-> adapterOptions,
                                 jobs |-> <<>>], newData(data), 1, e, plans)
     IN /\ Finish(after.batch, after.jobs, after.adapterOptions, P, W)
        /\ adapterOptions' = after.adapterOptions
  /\ grouping' = [pc |-> "called", data |-> data, started |-> Len(newData(data))]
  /\ UNCHANGED <<ops, dl>>

\* the ids and paths of the items: p3 is the id of no profile
ItemIds == ProfileIds \cup {"p3"}
Paths == {1, 2}
DataLists == Lists([id : ItemIds, path : Paths], MaxItems)
\* every transfer of the call ends in the same way
GroupBehaviours == {Later, Settled(Success), Throws(ErrorOf("adapter error"))}
GroupPlans(data) ==
  { [g \in 1..Len(newData(data)) |-> [k \in 1..Len(newData(data)[g].filesPath) |-> how]] :
      how \in GroupBehaviours }

NextGrouping ==
  \/ \E data \in DataLists, e \in ChainSettings :
       \E plans \in GroupPlans(data) :
         uploadByDifferentUploaderProfileIds(data, e, plans, QuietSettings, {FALSE})
  \/ \E b \in Batches :
       \E settled \in Settlements(InFlight(b), {Success}) :
         Settle(b, settled, QuietSettings, {FALSE})

SpecGrouping == Init /\ [][NextGrouping]_vars

\* ------------------------------------------------------------- download()
\* Ipc.sendMessage from download(): a progress event carries the ratio
\* num / den, a reply carries a message or nothing
SendDownload(d, channel, payload, num, den) ==
  [d EXCEPT !.ipc = Append(@, [channel |-> channel, payload |-> payload,
                               num |-> num, den |-> den])]

\* download(): the catch block
CatchDownload(d, message) ==
  [SendDownload(d, "file-download-reply", OrElse(message, "download failed"), 0, 0)
     EXCEPT !.pc = "failed", !.signals = Append(@, "error")]

\* reject(err): the awaited promise rejects unless it is settled already, and
\* the catch block runs
Reject(d, message) ==
  IF d.promise = "pending"
    THEN CatchDownload([d EXCEPT !.promise = "rejected"], message)
    ELSE d

\* OnData that reports the size of the chunk instead of the running total
OnDataPerChunk(d, n) ==
  LET counted == [d EXCEPT !.curLength = @ + n, !.chunks = @ + 1]
  IN IF d.known
       THEN SendDownload(counted, "file-download-progress", "none", n, d.totalLength)
       ELSE counted

\* OnData that leaves out the test of totalLength
OnDataUnconditional(d, n) ==
  LET counted == [d EXCEPT !.curLength = @ + n, !.chunks = @ + 1]
  IN SendDownload(counted, "file-download-progress", "none",
                  counted.curLength, d.totalLength)

\* res.data.on('data'): the handler of a chunk of n bytes
OnData(d, n) ==
  LET counted == [d EXCEPT !.curLength = @ + n, !.chunks = @ + 1]
  IN IF d.known
       THEN SendDownload(counted, "file-download-progress", "none",
                         counted.curLength, d.totalLength)
       ELSE counted

\* OnWriterClose that leaves out the test of error
OnWriterCloseUnguarded(d) ==
  LET finished == [d EXCEPT !.writer = "closed", !.signals = Append(@, "success"),
                            !.pc = IF d.promise = "pending" THEN "done" ELSE @,
                            !.promise = IF @ = "pending" THEN "resolved" ELSE @]
  IN IF ~d.known
       THEN SendDownload(finished, "file-download-reply", "none", 0, 0)
       ELSE finished

\* writer.on('close')
OnWriterClose(d) ==
  IF d.error
    THEN [d EXCEPT !.writer = "closed"]
    ELSE LET finished == [d EXCEPT !.writer = "closed", !.signals = Append(@, "success"),
                                   !.pc = IF d.promise = "pending" THEN "done" ELSE @,
                                   !.promise = IF @ = "pending" THEN "resolved" ELSE @]
         IN IF ~d.known
              THEN SendDownload(finished, "file-download-reply", "none", 0, 0)
              ELSE finished

\* writer.on('error'), after the handler of pipe() has unpiped and so paused
\* the response stream: error = err; writer.close(); reject(err)
OnWriterError(d, message) ==
  Reject([d EXCEPT !.error = TRUE, !.writer = "closing", !.failure = "writer",
                   !.source = IF @ = "flowing" THEN "paused" ELSE @], message)

\* the messages an error may carry
ErrorMessages == {"message", ""}

\* a call of download(name, url): axios.get is started
Download ==
  /\ dl.pc = "idle"
  /\ dl' = [dl EXCEPT !.pc = "requesting"]
  /\ UNCHANGED <<batch, adapterOptions, ops, grouping>>

\* axios.get rejects: .catch(reject)
RequestFails(message) ==
  /\ dl.pc = "requesting"
  /\ dl' = Reject([dl EXCEPT !.failure = "request"], message)
  /\ UNCHANGED <<batch, adapterOptions, ops, grouping>>

\* axios.get resolves with the response: the writer is created, the handlers
\* are attached and the response is piped into the writer; known tells whether
\* the response has a content-length header
Response(known, totalLength) ==
  /\ dl.pc = "requesting"
  /\ dl' = [dl EXCEPT !.pc = "streaming", !.known = known, !.totalLength = totalLength,
                       !.writer = "open", !.source = "flowing"]
  /\ UNCHANGED <<batch, adapterOptions, ops, grouping>>

\* a chunk of n bytes arrives on the response stream
Data(n) ==
  /\ dl.source = "flowing"
  /\ dl.curLength + n <= MaxBytes
  /\ dl' = OnData(dl, n)
  /\ UNCHANGED <<batch, adapterOptions, ops, grouping>>

\* the response stream ends: pipe() ends the writer
End ==
  /\ dl.source = "flowing"
  /\ dl' = [dl EXCEPT !.source = "ended",
                       !.writer = IF @ = "open" THEN "ending" ELSE @]
  /\ UNCHANGED <<batch, adapterOptions, ops, grouping>>

\* the response stream fails while it is read (connection lost): nothing
\* listens to its error, it ends no writer and settles no promise
SourceError ==
  /\ dl.source = "flowing"
  /\ dl' = [dl EXCEPT !.source = "errored", !.failure = "stream"]
  /\ UNCHANGED <<batch, adapterOptions, ops, grouping>>

\* the writer emits 'error'
WriterError(message) ==
  /\ dl.writer \in {"open", "ending"}
  /\ dl' = OnWriterError(dl, message)
  /\ UNCHANGED <<batch, adapterOptions, ops, grouping>>

\* the writer emits 'close', after it has finished or after close()
WriterClose ==
  /\ dl.writer \in {"ending", "closing"}
  /\ dl' = OnWriterClose(dl)
  /\ UNCHANGED <<batch, adapterOptions, ops, grouping>>

\* the sizes a content-length header may declare
TotalLengths == 0..MaxBytes

NextDownload ==
  \/ Download
  \/ \E message \in ErrorMessages : RequestFails(message)
  \/ \E totalLength \in TotalLengths : Response(TRUE, totalLength)
  \/ Response(FALSE, 0)
  \/ \E n \in 1..MaxBytes : Data(n)
  \/ End
  \/ SourceError
  \/ \E message \in ErrorMessages : WriterError(message)
  \/ WriterClose

SpecDownload == Init /\ [][NextDownload]_vars

\* ============================================================== properties
Started(r) == r.pc /= "idle"
Over(r) == r.pc \in {"returned", "caught", "rejected"}
Tasks(r) == 1..Len(r.task)
Unsettled(r) == {k \in Tasks(r) : r.task[k] \in {"new", "waiting", "inflight"}}
\* the promise of the task at position k settled before the p-th event
SettledBefore(r, k, p) ==
  \E q \in 1..(p - 1) : r.log[q].i = k - 1 /\ r.log[q].ev \in {"settle", "abort"}
\* the one history write of the batch holds exactly one outcome of position k
Recorded(r, k) ==
  /\ Len(r.history) = 1
  /\ Cardinality({j \in 1..Len(r.history[1]) : r.history[1][j].info.index = k - 1}) = 1
InSuccess(r, k) == \E j \in 1..Len(r.successRes) : r.successRes[j].info.index = k - 1
InFail(r, k) == \E j \in 1..Len(r.failRes) : r.failRes[j].info.index = k - 1
ResultNotifications(r) ==
  {j \in 1..Len(r.notifications) : r.notifications[j].title /= "clipboard recovered"}
TestReplies(r) ==
  SelectSeq(r.ipc, LAMBDA m : m.channel = "uploader-profile-test-reply")
Mode(r) == batchUploadMode(r.uploader)

\* C1: once every task of a batch has settled, a task whose transfer raised
\* has a Failure outcome, and the one history write holds an outcome of every
\* task of the batch.
C1_FaultIsolated ==
  \A b \in Batches :
    LET r == batch[b]
    IN \A k \in Tasks(r) :
         (r.task[k] = "fault" /\ Unsettled(r) = {}) =>
           /\ InFail(r, k)
           /\ Len(r.history) = 1
           /\ \A j \in Tasks(r) : Recorded(r, j)

\* C2: a structured failure stops no other task: a task is given up only after
\* a transfer before it raised, a task still waits only while the task before
\* it has not settled, and once every transfer of a batch has reported success
\* or a structured failure, the one history write holds exactly one outcome of
\* every task, in the category its transfer reported.
C2_StructuredFailureIsolated ==
  \A b \in Batches :
    LET r == batch[b]
    IN /\ \A k \in Tasks(r) :
            r.task[k] = "aborted" => \E j \in 1..(k - 1) : r.task[j] = "fault"
       /\ \A k \in Tasks(r) :
            (k > 1 /\ r.task[k] = "waiting") => r.task[k - 1] \in {"waiting", "inflight"}
       /\ (Len(r.task) > 0 /\ \A k \in Tasks(r) : r.task[k] \in {"success", "failure"}) =>
            /\ r.pc = "returned"
            /\ \A k \in Tasks(r) :
                 /\ Recorded(r, k)
                 /\ r.task[k] = "success" => (InSuccess(r, k) /\ ~InFail(r, k))
                 /\ r.task[k] = "failure" => (InFail(r, k) /\ ~InSuccess(r, k))

\* C2 witness: a Sequence batch of four files, one failing among three good
\* ones, the two after the failure included, all four recorded.
C2_Witness ==
  \E b \in Batches :
    /\ Mode(batch[b]) = "Sequence"
    /\ batch[b].task = <<"success", "failure", "success", "success">>
    /\ Len(batch[b].history) = 1
    /\ Len(batch[b].history[1]) = 4

\* C3: once every task of a Parallel batch of N files has settled, successes
\* plus failures are N and every task has exactly one recorded outcome.
C3_OutcomeComplete ==
  \A b \in Batches :
    LET r == batch[b]
    IN (r.uploader /= Undefined /\ Mode(r) = "Parallel" /\ Over(r) /\ Unsettled(r) = {}) =>
         /\ Len(r.successRes) + Len(r.failRes) = Len(r.opts.files)
         /\ \A k \in Tasks(r) : Recorded(r, k) /\ (InSuccess(r, k) /= InFail(r, k))

\* C4: in a Sequence batch at most one transfer is in flight, transfers are
\* invoked in index order, and the transfer of task i+1 is invoked only after
\* the transfer of task i settled.
C4_SequenceOrder ==
  \A b \in Batches :
    LET r == batch[b]
        invokes == SelectSeq(r.log, LAMBDA e : e.ev = "invoke")
    IN (r.uploader /= Undefined /\ Mode(r) = "Sequence") =>
         /\ Cardinality({k \in Tasks(r) : r.task[k] = "inflight"}) <= 1
         /\ \A j \in 1..Len(invokes) : invokes[j].i = j - 1
         /\ \A p \in 1..Len(r.log) :
              (r.log[p].ev = "invoke" /\ r.log[p].i > 0) =>
                \E q \in 1..(p - 1) : r.log[q] = Ev("settle", r.log[p].i - 1)

\* C4 witness: a Sequence batch of three files whose third transfer is in
\* flight.
C4_Witness ==
  \E b \in Batches :
    /\ Mode(batch[b]) = "Sequence"
    /\ Len(batch[b].task) = 3
    /\ batch[b].task[3] = "inflight"

\* C5 as stated: every call of upload that passed configuration and is over
\* has written the history exactly once and shown exactly one notification,
\* each of them after every task of the batch settled.
C5_ExactlyOnceAfterSettle ==
  \A b \in Batches :
    LET r == batch[b]
    IN (Over(r) /\ r.uploader /= Undefined) =>
         /\ Len(r.history) = 1
         /\ Len(r.notifications) = 1
         /\ \A p \in 1..Len(r.log) :
              r.log[p].ev \in {"history", "notify"} =>
                \A k \in Tasks(r) : SettledBefore(r, k, p)

\* C5 as amended: per call of upload the history is written at most once and
\* never while a task is unsettled: exactly once when the configuration
\* resolved and no task was rejected, never otherwise. The outcome is notified
\* at most once: exactly once unless the call returned a single-file success
\* (then the settings decide) or the catch block itself threw on a null or
\* undefined rejection (then never); nothing is written or shown before the
\* call is over, and a notification is shown while a task is unsettled only by
\* the catch block after a transfer raised.
C5_SideEffects ==
  \A b \in Batches :
    LET r == batch[b]
        singleSuccess ==
          r.pc = "returned" /\ Len(r.opts.files) <= 1 /\ Len(r.successRes) > 0
    IN /\ Len(r.history) <= 1
       /\ Cardinality(ResultNotifications(r)) <= 1
       /\ ~Over(r) => (Len(r.history) = 0 /\ Len(r.notifications) = 0)
       /\ Over(r) => (Len(r.history) = 1 <=> (r.uploader /= Undefined /\ ~Rejected(r)))
       /\ (Over(r) /\ ~singleSuccess /\ r.pc /= "rejected") =>
            Cardinality(ResultNotifications(r)) = 1
       /\ r.pc = "rejected" => (r.thrown.kind = "nullish" /\ r.notifications = <<>>)
       /\ \A p \in 1..Len(r.log) :
            /\ r.log[p].ev = "history" => \A k \in Tasks(r) : SettledBefore(r, k, p)
            /\ (r.log[p].ev = "notify" /\ \E k \in Tasks(r) : ~SettledBefore(r, k, p)) =>
                 /\ r.pc = "caught"
                 /\ \E k \in Tasks(r) : r.task[k] = "fault" /\ SettledBefore(r, k, p)

\* C5 witness: a batch of two files is over, with its history write and its
\* notification after both settlements.
C5_Witness ==
  \E b \in Batches :
    /\ batch[b].pc = "returned"
    /\ Len(batch[b].task) = 2
    /\ Len(batch[b].history) = 1
    /\ Len(batch[b].notifications) = 1

\* C6: every transfer is invoked while the uploader holds the options of the
\* profile of the batch that owns the transfer.
C6_OwnOptionsAtInvoke ==
  \A b \in Batches :
    LET r == batch[b]
    IN \A k \in Tasks(r) :
         r.task[k] \in {"inflight", "success", "failure", "fault"} =>
           r.invokedWith[k] = r.uploaderProfile.uploaderOptions

\* C7: a call that resolves no profile, or a profile whose uploader is not
\* registered, creates no task, calls neither changeOptions nor upload, writes
\* no history, shows exactly one failure notification and returns false.
C7_ConfigurationFatal ==
  \A b \in Batches :
    LET r == batch[b]
    IN (Started(r) /\ (r.uploaderProfile = NoProfile
                         \/ r.uploaderProfile.uploaderName \notin AdapterNames)) =>
         /\ r.task = <<>>
         /\ r.log = <<Ev("notify", 0)>>
         /\ r.history = <<>>
         /\ Len(r.notifications) = 1
         /\ r.notifications[1].title = "upload exception"
         /\ r.pc = "returned"
         /\ r.ret = "false"
         /\ \A u \in AdapterNames : adapterOptions[u] = Undefined

\* C7 witness: two files submitted to a profile whose uploader is not
\* registered.
C7_Witness ==
  \E b \in Batches :
    /\ Started(batch[b])
    /\ Len(batch[b].opts.files) = 2
    /\ batch[b].uploaderProfile /= NoProfile
    /\ batch[b].uploaderProfile.uploaderName \notin AdapterNames
    /\ Len(batch[b].notifications) = 1

\* C8: outside test mode the batch uses the known profile with the explicit id
\* when one is given (a non-empty id), else the one with the default id; when
\* there is none, the notification is the one of an unknown explicit id
\* exactly when an explicit id was given.
C8_ProfileSelection ==
  \A b \in Batches :
    LET r == batch[b]
        explicit == Truthy(r.opts.customUploaderProfileId)
        wanted == IF explicit THEN r.opts.customUploaderProfileId
                              ELSE r.env.defaultUploaderProfileId
        known == {p \in r.env.uploaderProfiles : p.id = wanted}
    IN (Started(r) /\ ~r.opts.isTest) =>
         /\ known /= {} => r.uploaderProfile \in known
         /\ known = {} =>
              /\ r.uploaderProfile = NoProfile
              /\ r.ret = "false"
              /\ (r.notifications[1].body = "uploader profile does not exist") <=> explicit
              /\ (r.notifications[1].body \in {"please configure the default uploader",
                                                "please add an uploader profile"}) <=> ~explicit

\* C8 witness: an explicit id that is unknown while the default id is known.
C8_Witness ==
  \E b \in Batches :
    LET r == batch[b]
    IN /\ Started(r) /\ ~r.opts.isTest
       /\ Truthy(r.opts.customUploaderProfileId)
       /\ \A p \in r.env.uploaderProfiles : p.id /= r.opts.customUploaderProfileId
       /\ \E p \in r.env.uploaderProfiles : p.id = r.env.defaultUploaderProfileId
       /\ r.uploaderProfile = NoProfile

\* C9 as stated: a supplied test profile is the profile of the batch, whatever
\* the explicit id, the default id, the known profiles and isTest.
C9_TestProfileAlwaysWins ==
  \A b \in Batches :
    LET r == batch[b]
    IN (Started(r) /\ r.opts.testProfile /= NoProfile) =>
         r.uploaderProfile = r.opts.testProfile

\* C9 as amended: with isTest set the profile of the batch is the test profile
\* of the options, whatever the explicit id, the default id and the known
\* profiles; with isTest unset a supplied test profile is not used.
C9_TestProfileWinsInTestMode ==
  \A b \in Batches :
    LET r == batch[b]
    IN Started(r) =>
         /\ r.opts.isTest => r.uploaderProfile = r.opts.testProfile
         /\ ~r.opts.isTest => r.uploaderProfile.id /= TestProfileId

\* C9 witness: test mode with a test profile, next to an explicit id and a
\* default id that are both known.
C9_Witness ==
  \E b \in Batches :
    LET r == batch[b]
    IN /\ Started(r) /\ r.opts.isTest /\ r.opts.testProfile /= NoProfile
       /\ \E p \in r.env.uploaderProfiles : p.id = r.opts.customUploaderProfileId
       /\ \E p \in r.env.uploaderProfiles : p.id = r.env.defaultUploaderProfileId
       /\ r.uploaderProfile = r.opts.testProfile

\* C10: once the transfer of a one-file test submission has settled, exactly
\* one test reply has been sent: true if the transfer succeeded, false if it
\* failed or raised.
C10_TestReplyValue ==
  \A b \in Batches :
    LET r == batch[b]
    IN (r.opts.isTest /\ Len(r.task) = 1 /\ r.task[1] \in {"success", "failure", "fault"}) =>
         /\ Len(TestReplies(r)) = 1
         /\ TestReplies(r)[1].payload = BoolStr(r.task[1] = "success")

\* --------------------------------------------------- presentation: claims
SingleTitles == {"upload succeeded", "upload failed"}
AggregateTitles == {"batch upload succeeded", "batch upload failed", "batch upload finished"}
\* the call resolved a profile and an uploader, and no transfer raised
Presentable(r) ==
  /\ Over(r) /\ r.uploader /= Undefined
  /\ \A k \in Tasks(r) : r.task[k] \in {"success", "failure"}

\* C15: a call that passed configuration and whose transfers all returned
\* presents a batch of at most one file in the single-outcome shape and a batch
\* of two or more files in the aggregate shape, whatever the outcomes are.
C15_ShapeBySize ==
  \A b \in Batches :
    LET r == batch[b]
    IN Presentable(r) =>
         /\ r.pc = "returned"
         /\ \A j \in ResultNotifications(r) :
              IF Len(r.opts.files) <= 1
                THEN r.notifications[j].title \in SingleTitles
                ELSE r.notifications[j].title \in AggregateTitles

\* C16: a returned batch of two or more files with s successes and f failures
\* has shown exactly one notification: 'succeeded' with s iff f = 0, 'failed'
\* with f iff s = 0 and f > 0, 'finished' with s and f iff s > 0 and f > 0.
C16_AggregateClassification ==
  \A b \in Batches :
    LET r == batch[b]
        sc == Len(r.successRes)
        fc == Len(r.failRes)
    IN (Presentable(r) /\ Len(r.opts.files) > 1) =>
         /\ sc + fc = Len(r.opts.files)
         /\ Len(r.notifications) = 1
         /\ LET n == r.notifications[1]
            IN /\ n.title \in AggregateTitles
               /\ n.title = "batch upload succeeded" <=> fc = 0
               /\ n.title = "batch upload failed" <=> (sc = 0 /\ fc > 0)
               /\ n.title = "batch upload finished" <=> (sc > 0 /\ fc > 0)
               /\ n.counts = (IF fc = 0 THEN <<sc>>
                               ELSE IF sc = 0 THEN <<fc>> ELSE <<sc, fc>>)

\* C16 witness: a returned two-file batch with one success and one failure,
\* presented as mixed with the counts 1 and 1.
C16_Witness ==
  \E b \in Batches :
    LET r == batch[b]
    IN /\ Presentable(r) /\ Len(r.opts.files) = 2
       /\ Len(r.successRes) = 1 /\ Len(r.failRes) = 1
       /\ Len(r.notifications) = 1
       /\ r.notifications[1].title = "batch upload finished"
       /\ r.notifications[1].counts = <<1, 1>>

\* ------------------------------------------------------- dispatch: claims
\* the positions of the log that hold an event of the kinds evs
At(r, evs) == {p \in 1..Len(r.log) : r.log[p].ev \in evs}
Dispatched(r) == r.uploader /= Undefined /\ r.pc /= "idle"

\* C17 (as stated): every task of a batch is prepared before the uploader's
\* upload is invoked for any task of the batch.
C17_PreparedBeforeAnyInvoke ==
  \A b \in Batches :
    LET r == batch[b]
    IN \A p \in At(r, {"prepare"}), q \in At(r, {"invoke"}) : p < q

\* C17 (amended): from the moment upload() first yields, every task of the
\* batch has been prepared, once and in submission order, whether or not its
\* transfer is gated; every task is prepared before its own transfer is
\* invoked, before any task is given up, and before any transfer settles,
\* except the settlement of a call of uploader.upload that threw: that one
\* follows its invocation at once, ahead of the preparation of later tasks.
C17_PreparedBeforeOwnInvoke ==
  \A b \in Batches :
    LET r == batch[b]
        prepares == SelectSeq(r.log, LAMBDA e : e.ev = "prepare")
    IN Dispatched(r) =>
         /\ Len(prepares) = Len(r.opts.files)
         /\ \A k \in 1..Len(prepares) : prepares[k].i = k - 1
         /\ \A p \in At(r, {"prepare"}), q \in At(r, {"abort"}) : p < q
         /\ \A q \in At(r, {"settle"}) :
              IF r.plan[r.log[q].i + 1].when = "throws"
                THEN r.log[q - 1] = Ev("invoke", r.log[q].i)
                ELSE \A p \in At(r, {"prepare"}) : p < q
         /\ \A q \in At(r, {"invoke"}) :
              \E p \in At(r, {"prepare"}) : p < q /\ r.log[p].i = r.log[q].i

\* C17 witness: a Sequence batch of three or more files whose first transfer
\* has settled while the third task, prepared long since, still waits.
C17_Witness ==
  \E b \in Batches :
    LET r == batch[b]
    IN /\ Dispatched(r) /\ Mode(r) = "Sequence" /\ Len(r.task) >= 3
       /\ r.task[1] \in {"success", "failure"} /\ r.task[3] = "waiting"
       /\ \E p \in At(r, {"prepare"}) : r.log[p].i = 2

\* C18: in a Sequence batch, once the transfer of a task has raised, the
\* uploader's upload has been invoked for no later task, the batch has written
\* no history, and the call has ended with exactly one notification, the
\* failure carrying the error's message.
C18_SequenceAbort ==
  \A b \in Batches :
    LET r == batch[b]
    IN \A k \in Tasks(r) :
         (Dispatched(r) /\ Mode(r) = "Sequence" /\ r.task[k] = "fault") =>
           /\ \A q \in At(r, {"invoke"}) : r.log[q].i <= k - 1
           /\ \A j \in Tasks(r) : j > k => r.task[j] = "aborted" /\ r.invokedWith[j] = Undefined
           /\ r.history = <<>>
           /\ r.pc = "caught"
           /\ Len(r.notifications) = 1
           /\ r.notifications[1].title = "upload exception"
           /\ r.notifications[1].body = "adapter error"

\* C19: a test-mode call that is over has sent exactly one
\* 'uploader-profile-test-reply', on whichever path it ended.
C19_TestReplyOnEveryPath ==
  \A b \in Batches :
    LET r == batch[b]
    IN (r.opts.isTest /\ Over(r)) => Len(TestReplies(r)) = 1

\* ------------------------------------------------------- grouping: claims
\* the batches that upload the items of profile id
BatchesOf(id) ==
  {b \in Batches : Started(batch[b]) /\ batch[b].opts.customUploaderProfileId = id}
\* the positions of data up to p whose item has the id of the item at p
SameIdUpTo(data, p) == {q \in 1..p : data[q].id = data[p].id}

\* C20: after uploadByDifferentUploaderProfileIds(data), one batch has been
\* started per distinct id of data, with that id as its explicit profile id;
\* the files of the batch of an id are the paths of the items of that id, each
\* as often as it occurs and in the order of data, and no other batch started.
C20_GroupedByProfile ==
  grouping.pc = "called" =>
    LET data == grouping.data
        ids == {data[p].id : p \in 1..Len(data)}
    IN /\ Cardinality({b \in Batches : Started(batch[b])}) = Cardinality(ids)
       /\ grouping.started = Cardinality(ids)
       /\ \A id \in ids : Cardinality(BatchesOf(id)) = 1
       /\ \A p \in 1..Len(data) :
            \A b \in BatchesOf(data[p].id) :
              /\ Len(batch[b].opts.files) =
                   Cardinality({q \in 1..Len(data) : data[q].id = data[p].id})
              /\ batch[b].opts.files[Cardinality(SameIdUpTo(data, p))] = data[p].path

\* C20 witness: data of two ids in which one id has the same path twice, with
\* an item of the other id in between.
C20_Witness ==
  /\ grouping.pc = "called" /\ Len(grouping.data) = 3
  /\ grouping.data[1].id = grouping.data[3].id
  /\ grouping.data[1].path = grouping.data[3].path
  /\ grouping.data[2].id /= grouping.data[1].id
  /\ \E b \in BatchesOf(grouping.data[1].id) : Len(batch[b].opts.files) = 2
  /\ \E b \in BatchesOf(grouping.data[2].id) : Len(batch[b].opts.files) = 1

\* ------------------------------------------------------ download: claims
Progress(d) == SelectSeq(d.ipc, LAMBDA m : m.channel = "file-download-progress")

DownloadReplies(d) == SelectSeq(d.ipc, LAMBDA m : m.channel = "file-download-reply")

\* C11: while a download whose response declares a total size runs, one
\* progress event has been sent per received chunk, every event carries the
\* bytes received so far over the declared total, the ratios grow from event
\* to event, the last one is 1 once all bytes have been received, and a
\* download that completed has sent no 'file-download-reply'.
C11_ProgressPerChunk ==
  dl.known =>
    LET progress == Progress(dl)
    IN /\ Len(progress) = dl.chunks
       /\ \A k \in 1..Len(progress) :
            /\ progress[k].den = dl.totalLength
            /\ progress[k].num >= 1
            /\ k > 1 => progress[k - 1].num < progress[k].num
       /\ dl.chunks > 0 => progress[Len(progress)].num = dl.curLength
       /\ (dl.chunks > 0 /\ dl.curLength = dl.totalLength) =>
            progress[Len(progress)].num = progress[Len(progress)].den
       /\ dl.pc = "done" => DownloadReplies(dl) = <<>>

\* C11 witness: a completed download of a declared size that arrived in at
\* least three chunks.
C11_Witness ==
  /\ dl.known /\ dl.pc = "done" /\ dl.chunks >= 3
  /\ Len(Progress(dl)) = dl.chunks
  /\ dl.curLength = dl.totalLength

\* C12: a download whose response declares no total size never sends a
\* progress event, and once it has completed it has sent exactly one
\* 'file-download-reply', without payload.
C12_UnknownSizeSilent ==
  (dl.pc /= "idle" /\ dl.pc /= "requesting" /\ ~dl.known) =>
    /\ Progress(dl) = <<>>
    /\ dl.pc = "done" =>
         /\ Len(DownloadReplies(dl)) = 1
         /\ DownloadReplies(dl)[1].payload = "none"

\* C12 witness: a completed download of undeclared size that arrived in at
\* least two chunks.
C12_Witness ==
  /\ ~dl.known /\ dl.pc = "done" /\ dl.chunks >= 2
  /\ Len(dl.ipc) = 1

\* C13: once a download has met an error (request failure, error of the
\* response stream, error of the writer), the writer is not left open and
\* exactly one 'file-download-reply' with a message has been sent, after all
\* progress events.
C13_ErrorTerminates ==
  dl.failure /= "none" =>
    /\ dl.writer \in {"none", "closing", "closed"}
    /\ Len(DownloadReplies(dl)) = 1
    /\ Truthy(DownloadReplies(dl)[1].payload) /\ DownloadReplies(dl)[1].payload /= "none"
    /\ dl.ipc[Len(dl.ipc)].channel = "file-download-reply"

\* C14: a download call produces at most one terminal signal: its promise
\* settles once, at most one 'file-download-reply' is sent, and completion
\* and error are never both signalled.
C14_TerminalUnique ==
  /\ Len(dl.signals) <= 1
  /\ Len(DownloadReplies(dl)) <= 1
  /\ dl.promise = "resolved" => dl.signals = <<"success">>
  /\ dl.promise = "rejected" => dl.signals = <<"error">>
  /\ dl.promise = "pending" => dl.signals = <<>>

\* C14 witness: the writer failed after data had arrived and has closed since.
C14_Witness ==
  /\ dl.error /\ dl.writer = "closed" /\ dl.chunks >= 1
  /\ dl.signals = <<"error">>

====
